---- MODULE Spec2Model ----
(***************************************************************************)
(* Model of the scrapybara-playground chat backend:                        *)
(*   src/src/db.py     the credit store (Database)                         *)
(*   src/src/utils.py  ToolCollection.run, the image retention policy      *)
(*                     maybe_filter_to_n_most_recent_images and            *)
(*                     make_tool_result                                    *)
(*   src/src/main.py   ChatSession, check_pause_message,                   *)
(*                     process_chat_message and websocket_endpoint         *)
(*                                                                         *)
(* Python values are written as follows.  None is the string "None"; a     *)
(* dict is a record; a list is a sequence.  The content of a tool_result   *)
(* block is either a list or a str (make_tool_result, utils.py:73-78), so  *)
(* it is the record [list |-> TRUE, parts |-> <<...>>] or                  *)
(* [list |-> FALSE, str |-> "..."].                                        *)
(***************************************************************************)
EXTENDS Integers, Sequences, FiniteSets, TLC

VARIABLES
    pc,                  \* position of websocket_endpoint / process_chat_message
    inbox,               \* client -> server frames delivered and not yet received
    clientSent,          \* number of command frames the client has sent
    clientGone,          \* the client has closed the transport
    instance,            \* ChatSession.instance: "None" or "instance"
    tool_collection,     \* ChatSession.tool_collection: "None" or "tools"
    running,             \* instances started at the provider and not stopped
    balance,             \* users.agent_credits of the session's user in the store
    agent_credits,       \* local agent_credits of process_chat_message
    messages,            \* ChatSession.messages, or the history under pruning
    response_params,     \* local response_params
    idx,                 \* position of the for loop over response_params
    tool_result_content, \* local tool_result_content
    events,              \* frames sent to the client, in order, in this phase
    calls,               \* external calls of the current turn, in order
    turn,                \* per-turn bookkeeping (see TurnInit)
    nextId,              \* next tool_use id the inference provider hands out
    inferTotal,          \* inference calls made in this session
    keep,                \* images_to_keep of the pruning under study
    minBatch,            \* min_removal_threshold of the pruning under study
    before,              \* the histories before each pruning pass so far
    prunes,              \* consecutive pruning passes since the last append
    responses            \* the responses the inference provider may give

vars == <<pc, inbox, clientSent, clientGone, instance,
          tool_collection, running, balance, agent_credits, messages,
          response_params, idx, tool_result_content, events, calls,
          turn, nextId, inferTotal, keep, minBatch, before, prunes,
          responses>>

sessionVars == <<pc, inbox, clientSent, clientGone, instance,
                 tool_collection, running, balance, agent_credits,
                 response_params, idx, tool_result_content, events,
                 calls, turn, nextId, inferTotal>>

pruneVars == <<keep, minBatch, before, prunes, responses>>

None == "None"

(***************************************************************************)
(* Bounds of the model.                                                    *)
(***************************************************************************)
MaxResults == 6        \* tool results in a history handed to the pruning
MaxFrames == 2         \* command frames the client sends after its first frame
MaxInfer == 2          \* inference calls made in one session
MaxCredits == 1        \* the user's balance when the session starts

\* main.py:145  maybe_filter_to_n_most_recent_images(chat_session.messages, 4, 2)
images_to_keep == 4
min_removal_threshold == 2

(***************************************************************************)
(* ToolResult values (scrapybara.anthropic.ToolResult): output, error and  *)
(* base64_image, each None, "" or a non-empty string.  Null is a tool run  *)
(* that returned None.                                                     *)
(***************************************************************************)
Null == [null |-> TRUE]

ToolResult(o, e, i) == [null |-> FALSE, output |-> o, error |-> e, base64_image |-> i]

\* Python truthiness of a str-or-None field
Nonempty(s) == s # None /\ s # ""

\* `if result:` / `not result` (main.py:184, 195): None is falsy, and a
\* ToolResult is truthy when one of its fields is (its __bool__)
Truthy(r) ==
    /\ ~r.null
    /\ (Nonempty(r.output) \/ Nonempty(r.error) \/ Nonempty(r.base64_image))

(***************************************************************************)
(* utils.py: make_tool_result                                              *)
(***************************************************************************)
make_tool_result(r, tool_use_id) ==
    LET textPart  == IF Nonempty(r.output)
                     THEN << [type |-> "text", text |-> r.output] >>
                     ELSE << >>
        imagePart == IF Nonempty(r.base64_image)
                     THEN << [type |-> "image", data |-> r.base64_image] >>
                     ELSE << >>
    IN  IF Nonempty(r.error)
        THEN [type |-> "tool_result",
              content |-> [list |-> FALSE, str |-> r.error],
              tool_use_id |-> tool_use_id,
              is_error |-> TRUE]
        ELSE [type |-> "tool_result",
              content |-> [list |-> TRUE, parts |-> textPart \o imagePart],
              tool_use_id |-> tool_use_id,
              is_error |-> FALSE]

(***************************************************************************)
(* utils.py: maybe_filter_to_n_most_recent_images                          *)
(***************************************************************************)
\* lines 38-48: the tool_result blocks of all messages, in history order
RECURSIVE ToolResultBlocks(_)
ToolResultBlocks(msgs) ==
    IF msgs = << >> THEN << >>
    ELSE SelectSeq(Head(msgs).content, LAMBDA b : b.type = "tool_result")
         \o ToolResultBlocks(Tail(msgs))

\* the image parts of one tool_result block (a str content holds none:
\* its items are characters, not dicts)
BlockImages(b) ==
    IF b.content.list
    THEN SelectSeq(b.content.parts, LAMBDA c : c.type = "image")
    ELSE << >>

RECURSIVE SumImages(_)
SumImages(blocks) ==
    IF blocks = << >> THEN 0
    ELSE Len(BlockImages(Head(blocks))) + SumImages(Tail(blocks))

\* lines 50-55
TotalImages(msgs) == SumImages(ToolResultBlocks(msgs))

\* lines 57-58 (Python's % has the sign of the divisor, as TLA+'s has)
ImagesToRemoveNoBatch(total, n, threshold) == total - n

ImagesToRemove(total, n, threshold) ==
    (total - n) - ((total - n) % threshold)

\* lines 62-68: one block's new_content and the images_to_remove left
RECURSIVE FilterParts(_, _)
FilterParts(parts, n) ==
    IF parts = << >> THEN [parts |-> << >>, left |-> n]
    ELSE LET c == Head(parts)
         IN  IF c.type = "image" /\ n > 0
             THEN FilterParts(Tail(parts), n - 1)
             ELSE LET r == FilterParts(Tail(parts), n)
                  IN  [parts |-> <<c>> \o r.parts, left |-> r.left]

\* lines 60-69 within one message: only tool_result blocks whose content is
\* a list are rewritten
RECURSIVE FilterBlocks(_, _)
FilterBlocks(blocks, n) ==
    IF blocks = << >> THEN [blocks |-> << >>, left |-> n]
    ELSE LET b == Head(blocks)
         IN  IF b.type = "tool_result" /\ b.content.list
             THEN LET f == FilterParts(b.content.parts, n)
                      r == FilterBlocks(Tail(blocks), f.left)
                      nb == [b EXCEPT !.content.parts = f.parts]
                  IN  [blocks |-> <<nb>> \o r.blocks, left |-> r.left]
             ELSE LET r == FilterBlocks(Tail(blocks), n)
                  IN  [blocks |-> <<b>> \o r.blocks, left |-> r.left]

\* lines 60-69 over the history, oldest message first
RECURSIVE FilterMessagesNewestFirst(_, _)
FilterMessagesNewestFirst(msgs, n) ==
    IF msgs = << >> THEN << >>
    ELSE LET last == msgs[Len(msgs)]
             f    == FilterBlocks(last.content, n)
         IN  FilterMessagesNewestFirst(SubSeq(msgs, 1, Len(msgs) - 1), f.left)
             \o << [last EXCEPT !.content = f.blocks] >>

RECURSIVE FilterMessages(_, _)
FilterMessages(msgs, n) ==
    IF msgs = << >> THEN << >>
    ELSE LET f == FilterBlocks(Head(msgs).content, n)
         IN  << [Head(msgs) EXCEPT !.content = f.blocks] >>
             \o FilterMessages(Tail(msgs), f.left)

keep_all_images(msgs, n, threshold) == msgs

maybe_filter_to_n_most_recent_images(msgs, n, threshold) ==
    FilterMessages(msgs, ImagesToRemove(TotalImages(msgs), n, threshold))

(***************************************************************************)
(* Inputs.  The outcomes of one tool run: None (unknown tool, or the       *)
(* capability raised: utils.py:22-30), or a ToolResult.                    *)
(***************************************************************************)
EmptyResult == ToolResult("", "", None)

ToolOutcomes ==
    { Null,
      EmptyResult,
      ToolResult("out", None, None),
      ToolResult(None, "err", None),
      ToolResult(None, None, "png"),
      ToolResult("out", None, "png") }

\* the outcomes the session model draws from.  A bash run returns None, an
\* all-empty result or its output; a run of another tool returns None, an
\* error or output with a screenshot.
BashOutcomes ==
    { Null, EmptyResult, ToolResult("out", None, None) }

SessionOutcomes ==
    { Null, ToolResult(None, "err", None), ToolResult("out", None, "png") }

\* the results that reach the history (main.py:195)
TruthyOutcomes == { r \in ToolOutcomes : Truthy(r) }

UserText == [role |-> "user", content |-> << [type |-> "text", text |-> "msg"] >>]

ToolUse(name, id) == [type |-> "tool_use", name |-> name, id |-> id]

TextBlock == [type |-> "text", text |-> "txt"]

BoundedSeqs(S, n) == UNION { [1..k -> S] : k \in 0..n }

(***************************************************************************)
(* The histories handed to the pruning: what process_chat_message builds   *)
(* (main.py:115-120, 211-221): a user text message, then per iteration an  *)
(* assistant message of tool_use blocks and a user message of the          *)
(* tool_result blocks made from the results, here one or two per           *)
(* iteration.                                                              *)
(***************************************************************************)
RECURSIVE Iterations(_, _)
Iterations(rs, id) ==
    IF rs = << >> THEN << >>
    ELSE LET k == IF Len(rs) >= 2 THEN 2 ELSE 1
         IN  << [role |-> "assistant",
                 content |-> <<TextBlock>> \o
                             [j \in 1..k |-> ToolUse("computer", id + j - 1)]],
                [role |-> "user",
                 content |-> [j \in 1..k |-> make_tool_result(rs[j], id + j - 1)]] >>
             \o Iterations(SubSeq(rs, k + 1, Len(rs)), id + k)

HistoryOf(rs) == <<UserText>> \o Iterations(rs, 1)

Batches == 1..(min_removal_threshold + 1)

Keeps == 0..images_to_keep

(***************************************************************************)
(* The session: websocket_endpoint and process_chat_message (main.py).     *)
(*                                                                         *)
(* Frames from the client: "hello" (a dict with api_key), "bad" (a first   *)
(* frame without api_key), {"message": ..}, {"command": "pause"},          *)
(* {"command": "terminate"}, and "disconnect", the websocket.disconnect    *)
(* that makes receive_json raise WebSocketDisconnect.                      *)
(***************************************************************************)
Commands == {"message", "pause", "terminate"}

\* the tools of ChatSession.tool_collection (main.py:67-71)
tool_map == {"computer", "bash", "str_replace_editor"}

\* the content parts the inference provider answers with: text, or a
\* tool_use naming a tool (one of them unknown to tool_map)
PartKinds == {"text", "bash", "computer", "nosuch"}

\* the responses the session model draws from: text only, a tool call
\* followed by text, two tool calls the first of which names an unknown tool
Responses ==
    { <<"text">>, <<"bash", "text">>, <<"nosuch", "computer">> }

\* the responses of a session resumed with a history: text only, or three
\* tool calls the first of which names an unknown tool
LateResponses ==
    { <<"text">>, <<"nosuch", "computer", "computer">> }

\* bookkeeping of the turns: n turns started so far, active of them not yet
\* returned, and the stored balance, the history length and the number of
\* frames the client had sent when the last one started
NoTurn == [n |-> 0, active |-> 0, startBalance |-> 0, startLen |-> 0,
           startSent |-> 0]

Event(t) == [type |-> t]

\* main.py:229-234: the frames of the except handler
FailureEvents ==
    << [type |-> "tool_result", error |-> "Anthropic API error"],
       Event("loop_complete") >>

\* main.py:199-208
ToolResultEvent(r) ==
    [type   |-> "tool_result",
     output |-> IF Nonempty(r.output) THEN r.output ELSE None,
     error  |-> IF Nonempty(r.error) THEN r.error ELSE None,
     image  |-> IF Nonempty(r.base64_image) THEN r.base64_image ELSE None]

(***************************************************************************)
(* websocket.send_json of the frames es, one after the other.  While the   *)
(* client is there every frame is sent.  Once the client has gone a send   *)
(* either still succeeds (the server has not seen the close yet) or        *)
(* raises; after a send has raised, every later one raises too.            *)
(***************************************************************************)
SendOutcomes(es) ==
    IF clientGone
    THEN { [sent |-> SubSeq(es, 1, k), ok |-> (k = Len(es))] : k \in 0..Len(es) }
    ELSE { [sent |-> es, ok |-> TRUE] }

\* main.py:77-82 terminate_instance, as the values it leaves
StoppedRunning == IF instance # None THEN running - 1 ELSE running

\* main.py:307-315: the except/finally of websocket_endpoint: the instance,
\* if there is one, is terminated and the socket closed
EndSessionKeepInstance ==
    /\ pc' = "closed"
    /\ turn' = [turn EXCEPT !.active = 0]
    /\ UNCHANGED <<instance, tool_collection, running>>

EndSession ==
    /\ pc' = "closed"
    /\ instance' = None
    /\ tool_collection' = IF instance # None THEN None ELSE tool_collection
    /\ running' = StoppedRunning
    /\ turn' = [turn EXCEPT !.active = 0]

\* process_chat_message returns (or breaks) to the command loop
ReturnToLoop ==
    /\ pc' = "loop"
    /\ turn' = [turn EXCEPT !.active = @ - 1]
    /\ UNCHANGED <<instance, tool_collection, running>>

Init ==
    /\ pc = "accept"
    /\ inbox = << >>
    /\ clientSent = 0
    /\ clientGone = FALSE
    /\ instance = None
    /\ tool_collection = None
    /\ running = 0
    /\ balance \in 0..MaxCredits
    /\ agent_credits = 0
    /\ messages = << >>
    /\ response_params = << >>
    /\ idx = 0
    /\ tool_result_content = << >>
    /\ events = << >>
    /\ calls = << >>
    /\ turn = NoTurn
    /\ nextId = 1
    /\ inferTotal = 0
    /\ keep = images_to_keep
    /\ minBatch = min_removal_threshold
    /\ before = << >>
    /\ prunes = 0
    /\ responses = Responses

turnLocals == <<agent_credits, response_params, idx, tool_result_content>>

(***************************************************************************)
(* The client.                                                             *)
(***************************************************************************)
\* the first frame
ClientHello ==
    /\ clientSent = 0
    /\ ~clientGone
    /\ inbox = << >>
    /\ pc = "accept"
    /\ \E f \in {"hello", "bad"} : inbox' = <<f>>
    /\ clientSent' = 1
    /\ UNCHANGED <<pc, clientGone, instance, tool_collection, running, balance,
                   messages, events, calls, turn, nextId, inferTotal>>
    /\ UNCHANGED turnLocals
    /\ UNCHANGED pruneVars

\* a command frame, at any time after the first frame
ClientCommand ==
    /\ clientSent >= 1
    /\ clientSent <= MaxFrames
    /\ ~clientGone
    /\ pc # "closed"
    /\ \E f \in Commands : inbox' = Append(inbox, f)
    /\ clientSent' = clientSent + 1
    /\ UNCHANGED <<pc, clientGone, instance, tool_collection, running, balance,
                   messages, events, calls, turn, nextId, inferTotal>>
    /\ UNCHANGED turnLocals
    /\ UNCHANGED pruneVars

\* the client closes the transport, at any time
ClientDisconnect ==
    /\ ~clientGone
    /\ pc # "closed"
    /\ clientGone' = TRUE
    /\ inbox' = Append(inbox, "disconnect")
    /\ UNCHANGED <<pc, clientSent, instance, tool_collection, running, balance,
                   messages, events, calls, turn, nextId, inferTotal>>
    /\ UNCHANGED turnLocals
    /\ UNCHANGED pruneVars

(***************************************************************************)
(* websocket_endpoint                                                      *)
(***************************************************************************)
\* main.py:251-265: the first frame.  A disconnect or a frame without
\* api_key raises and ends the session; otherwise the ChatSession is made
\* and the deploying status sent.
Accept ==
    /\ pc = "accept"
    /\ inbox # << >>
    /\ inbox' = Tail(inbox)
    /\ IF Head(inbox) = "hello"
       THEN \E s \in SendOutcomes(<< [type |-> "tool_result", output |-> "Deploying instance"] >>) :
                /\ events' = events \o s.sent
                /\ IF s.ok
                   THEN /\ pc' = "provision"
                        /\ UNCHANGED <<instance, tool_collection, running, turn>>
                   ELSE EndSession
       ELSE /\ EndSession
            /\ UNCHANGED events
    /\ UNCHANGED <<clientSent, clientGone, balance, messages, calls, nextId,
                   inferTotal>>
    /\ UNCHANGED turnLocals
    /\ UNCHANGED pruneVars

\* main.py:51-75 initialize_instance: start_ubuntu raises (no instance), or
\* a later step raises (the instance is kept, no tool_collection), or all
\* succeed
InitializeOutcomes == {"start_failed", "setup_failed", "ok"}

\* main.py:268 with 51-75
Initialize ==
    /\ pc = "provision"
    /\ \E o \in InitializeOutcomes :
           /\ instance' = IF o = "start_failed" THEN None ELSE "instance"
           /\ running' = IF o = "start_failed" THEN running ELSE running + 1
           /\ tool_collection' = IF o = "ok" THEN "tools" ELSE None
           /\ pc' = IF o = "ok" THEN "launch" ELSE "init_failed"
    /\ UNCHANGED <<inbox, clientSent, clientGone, balance, messages, events,
                   calls, turn, nextId, inferTotal>>
    /\ UNCHANGED turnLocals
    /\ UNCHANGED pruneVars

\* main.py:270-273: the frames of a provisioning failure
StartFailureEventsNoComplete ==
    << [type |-> "tool_result", error |-> "start error"] >>

StartFailureEvents ==
    << [type |-> "tool_result", error |-> "start error"],
       Event("loop_complete") >>

\* main.py:269-274: the error and loop_complete frames, then return
InitFailed ==
    /\ pc = "init_failed"
    /\ \E s \in SendOutcomes(StartFailureEvents) :
           events' = events \o s.sent
    /\ EndSession
    /\ UNCHANGED <<inbox, clientSent, clientGone, balance, messages, calls,
                   nextId, inferTotal>>
    /\ UNCHANGED turnLocals
    /\ UNCHANGED pruneVars

\* main.py:276-288: the launching status and instance_info
Launch ==
    /\ pc = "launch"
    /\ \E s \in SendOutcomes(<< [type |-> "tool_result", output |-> "Launching agent"],
                                Event("instance_info") >>) :
           /\ events' = events \o s.sent
           /\ IF s.ok
              THEN /\ pc' = "loop"
                   /\ UNCHANGED <<instance, tool_collection, running, turn>>
              ELSE EndSession
    /\ UNCHANGED <<inbox, clientSent, clientGone, balance, messages, calls,
                   nextId, inferTotal>>
    /\ UNCHANGED turnLocals
    /\ UNCHANGED pruneVars

\* the credit store answers or raises (db.py:11-37)
StoreOutcomes == {"ok", "raise"}

\* main.py:112-113, 137: the statement after a store call is reached only
\* when the call returned; an exception leaves the straight-line code
ConfirmedAlways(o) == TRUE

Confirmed(o) == o = "ok"

\* the command loop takes a frame only while no turn is being awaited
\* (main.py:291-302)
LoopReadyWhileTurnRuns ==
    pc \in {"loop", "check", "pause", "infer", "part", "run", "shot"}

LoopReady == pc = "loop"

\* main.py:293-305 with 111-120: one frame of the command loop.
\*   disconnect: break.  terminate: terminate_instance, break.
\*   message: process_chat_message starts: the user and the balance are
\*   read (a store failure propagates and ends the session) and the user
\*   message is appended.  Anything else is ignored.
Command ==
    /\ LoopReady
    /\ inbox # << >>
    /\ inbox' = Tail(inbox)
    /\ LET f == Head(inbox) IN
       CASE f \in {"disconnect", "terminate"} ->
              /\ EndSession
              /\ UNCHANGED <<messages, events, calls, agent_credits>>
         [] f = "message" ->
              \E o \in StoreOutcomes :
                 IF ~Confirmed(o)
                 THEN /\ EndSession
                      /\ UNCHANGED <<messages, events, calls, agent_credits>>
                 ELSE /\ agent_credits' = balance
                      /\ messages' = Append(messages, UserText)
                      /\ pc' = "check"
                      /\ turn' = [n |-> turn.n + 1,
                                  active |-> turn.active + 1,
                                  startBalance |-> balance,
                                  startLen |-> Len(messages),
                                  startSent |-> clientSent]
                      /\ events' = << >>
                      /\ calls' = << >>
                      /\ UNCHANGED <<instance, tool_collection, running>>
         [] OTHER ->
              /\ UNCHANGED <<pc, instance, tool_collection, running, turn,
                             messages, events, calls, agent_credits>>
    /\ UNCHANGED <<clientSent, clientGone, balance, nextId, inferTotal,
                   response_params, idx, tool_result_content>>
    /\ UNCHANGED pruneVars

(***************************************************************************)
(* process_chat_message: the while loop                                    *)
(***************************************************************************)
\* main.py:228-235: the except handler sends its two frames and returns; a
\* send that raises propagates to websocket_endpoint
FailedEndsSession ==
    \E s \in SendOutcomes(FailureEvents) :
        /\ events' = events \o s.sent
        /\ EndSession

Failed ==
    \E s \in SendOutcomes(FailureEvents) :
        /\ events' = events \o s.sent
        /\ IF s.ok THEN ReturnToLoop ELSE EndSession

\* db.py:33-37 decrement_credits: the stored balance, read again, minus one
Decremented(b) == b - 1

\* main.py:127 the quota check of the iteration
OutOfCreditsStrict == agent_credits < 0

OutOfCredits == agent_credits <= 0

\* main.py:124-137: the head of an iteration: out of credits ends the turn,
\* otherwise the store is decremented (a store failure goes to the except
\* handler)
Check ==
    /\ pc = "check"
    /\ IF OutOfCredits
       THEN \E s \in SendOutcomes(<< Event("out_of_credits") >>) :
               /\ events' = events \o s.sent
               /\ IF s.ok THEN ReturnToLoop ELSE EndSession
               /\ UNCHANGED <<balance, calls>>
       ELSE \E o \in StoreOutcomes :
               /\ calls' = Append(calls, [op |-> "decrement", at |-> Len(events),
                                          ok |-> (o = "ok")])
               /\ IF ~Confirmed(o)
                  THEN /\ Failed
                       /\ UNCHANGED balance
                  ELSE /\ balance' = Decremented(balance)
                       /\ pc' = "pause"
                       /\ UNCHANGED <<events, instance, tool_collection, running, turn>>
    /\ UNCHANGED <<inbox, clientSent, clientGone, messages, nextId, inferTotal>>
    /\ UNCHANGED turnLocals
    /\ UNCHANGED pruneVars

\* main.py:93: what check_pause_message returns for a frame
IsPauseCapitalised(f) == f = "Pause"

IsPause(f) == f = "pause"

\* main.py:139-143 with 85-98 check_pause_message: the next frame is taken
\* if there is one within the timeout.  A pause ends the turn with
\* loop_paused; a disconnect raises (the handler's sends raise too, the
\* socket being closed); any other frame is dropped and the turn goes on.
CheckPause ==
    /\ pc = "pause"
    /\ IF inbox = << >>
       THEN /\ pc' = "infer"
            /\ UNCHANGED <<inbox, events, instance, tool_collection, running, turn>>
       ELSE /\ inbox' = Tail(inbox)
            /\ IF Head(inbox) = "disconnect"
               THEN /\ EndSession
                    /\ UNCHANGED events
               ELSE IF IsPause(Head(inbox))
               THEN \E s \in SendOutcomes(<< Event("loop_paused") >>) :
                       /\ events' = events \o s.sent
                       /\ IF s.ok THEN ReturnToLoop ELSE EndSession
               ELSE /\ pc' = "infer"
                    /\ UNCHANGED <<events, instance, tool_collection, running, turn>>
    /\ UNCHANGED <<clientSent, clientGone, balance, messages, calls, nextId,
                   inferTotal>>
    /\ UNCHANGED turnLocals
    /\ UNCHANGED pruneVars

\* utils.py:107-114 response_to_params over the provider's content blocks:
\* a text block, or the dump of a tool_use block with its id
RECURSIVE response_to_params(_, _)
response_to_params(kinds, id) ==
    IF kinds = << >> THEN << >>
    ELSE IF Head(kinds) = "text"
         THEN <<TextBlock>> \o response_to_params(Tail(kinds), id)
         ELSE <<ToolUse(Head(kinds), id)>> \o response_to_params(Tail(kinds), id + 1)

ToolUses(kinds) == Len(SelectSeq(kinds, LAMBDA k : k # "text"))

\* the inference provider answers or raises (main.py:150-157)
InferOutcomes == {"ok", "raise"}

\* main.py:145-160: the history is pruned and sent to the provider; an
\* exception goes to the except handler
Infer ==
    /\ pc = "infer"
    /\ inferTotal < MaxInfer
    /\ inferTotal' = inferTotal + 1
    /\ LET pruned == maybe_filter_to_n_most_recent_images(
                         messages, images_to_keep, min_removal_threshold)
           call(ok, ks) == [op |-> "infer", at |-> Len(events),
                            images |-> TotalImages(pruned),
                            ok |-> ok, content |-> ks]
       IN  /\ messages' = pruned
           /\ \E o \in InferOutcomes :
                 IF o = "raise"
                 THEN /\ calls' = Append(calls, call(FALSE, << >>))
                      /\ Failed
                      /\ UNCHANGED <<response_params, idx, tool_result_content, nextId>>
                 ELSE \E ks \in responses :
                         /\ calls' = Append(calls, call(TRUE, ks))
                         /\ response_params' = response_to_params(ks, nextId)
                         /\ nextId' = nextId + ToolUses(ks)
                         /\ idx' = 1
                         /\ tool_result_content' = << >>
                         /\ pc' = "part"
                         /\ UNCHANGED <<events, instance, tool_collection, running, turn>>
    /\ UNCHANGED <<inbox, clientSent, clientGone, balance, agent_credits>>
    /\ UNCHANGED pruneVars

\* main.py:124-127: `while True` goes back to the credit check
LoopHeadAfterQuota == "pause"

LoopHead == "check"

\* main.py:211-221: the history after the for loop
UpdatedResultsFirst ==
    LET assistant == [role |-> "assistant", content |-> response_params]
    IN  IF tool_result_content # << >>
        THEN messages \o << [role |-> "user", content |-> tool_result_content],
                            assistant >>
        ELSE Append(messages, assistant)

Updated ==
    LET assistant == [role |-> "assistant", content |-> response_params]
    IN  IF tool_result_content # << >>
        THEN messages \o << assistant,
                            [role |-> "user", content |-> tool_result_content] >>
        ELSE Append(messages, assistant)

\* main.py:163: the for loop takes the blocks in the order of the response
CurrentBlockLastFirst == response_params[Len(response_params) + 1 - idx]

CurrentBlock == response_params[idx]

\* main.py:163-175 and 210-226: the next content block of the response: a
\* text block is sent; a tool_use block is sent and its tool started; after
\* the last block the history is updated and the turn loops or completes
Part ==
    /\ pc = "part"
    /\ IF idx > Len(response_params)
       THEN /\ messages' = Updated
            /\ IF tool_result_content # << >>
               THEN /\ pc' = LoopHead
                    /\ UNCHANGED <<events, instance, tool_collection, running, turn>>
               ELSE \E s \in SendOutcomes(<< Event("loop_complete") >>) :
                       /\ events' = events \o s.sent
                       /\ IF s.ok THEN ReturnToLoop ELSE EndSession
            /\ UNCHANGED <<idx, calls>>
       ELSE LET block == CurrentBlock IN
            /\ UNCHANGED messages
            /\ IF block.type = "text"
               THEN \E s \in SendOutcomes(<< Event("text") >>) :
                       /\ events' = events \o s.sent
                       /\ IF s.ok
                          THEN /\ idx' = idx + 1
                               /\ UNCHANGED <<pc, instance, tool_collection, running, turn>>
                          ELSE /\ EndSession
                               /\ UNCHANGED idx
                       /\ UNCHANGED calls
               ELSE \E s \in SendOutcomes(<< [type |-> "tool_use", name |-> block.name] >>) :
                       /\ events' = events \o s.sent
                       /\ IF s.ok
                          THEN /\ pc' = "run"
                               /\ calls' = Append(calls, [op |-> "run", name |-> block.name,
                                                          at |-> Len(events')])
                               /\ UNCHANGED <<instance, tool_collection, running, turn>>
                          ELSE /\ EndSession
                               /\ UNCHANGED calls
                       /\ UNCHANGED idx
    /\ UNCHANGED <<inbox, clientSent, clientGone, balance, agent_credits,
                   response_params, tool_result_content, nextId, inferTotal>>
    /\ UNCHANGED pruneVars

\* utils.py:21-30 ToolCollection.run: None for a name not in tool_map or when
\* the tool raises, else what the tool returns
RunOutcomes(name) ==
    IF name \notin tool_map THEN {Null}
    ELSE IF name = "bash" THEN BashOutcomes
    ELSE SessionOutcomes

\* main.py:183-190: an empty bash result is replaced by a screenshot
NeedsScreenshotAnyTool(name, r) ==
    \/ ~Truthy(r)
    \/ (r.output = "" /\ r.error = "" /\ r.base64_image = None)

NeedsScreenshot(name, r) ==
    /\ name = "bash"
    /\ \/ ~Truthy(r)
       \/ (r.output = "" /\ r.error = "" /\ r.base64_image = None)

\* main.py:195-208: a truthy result becomes a tool_result block and a
\* tool_result frame; the for loop moves on
EmitOrAbort(r) ==
    IF Truthy(r)
    THEN /\ tool_result_content' =
                Append(tool_result_content,
                       make_tool_result(r, CurrentBlock.id))
         /\ \E s \in SendOutcomes(<< ToolResultEvent(r) >>) :
               /\ events' = events \o s.sent
               /\ IF s.ok
                  THEN /\ pc' = "part"
                       /\ idx' = idx + 1
                       /\ UNCHANGED <<instance, tool_collection, running, turn>>
                  ELSE /\ EndSession
                       /\ UNCHANGED idx
    ELSE /\ Failed
         /\ UNCHANGED <<idx, tool_result_content>>

Emit(r) ==
    IF Truthy(r)
    THEN /\ tool_result_content' =
                Append(tool_result_content,
                       make_tool_result(r, CurrentBlock.id))
         /\ \E s \in SendOutcomes(<< ToolResultEvent(r) >>) :
               /\ events' = events \o s.sent
               /\ IF s.ok
                  THEN /\ pc' = "part"
                       /\ idx' = idx + 1
                       /\ UNCHANGED <<instance, tool_collection, running, turn>>
                  ELSE /\ EndSession
                       /\ UNCHANGED idx
    ELSE /\ pc' = "part"
         /\ idx' = idx + 1
         /\ UNCHANGED <<tool_result_content, events, instance, tool_collection,
                        running, turn>>

\* the record of a tool run returning: the tool that ran, the tool_use block
\* it ran for, whether it was the follow-up screenshot (main.py:191-193),
\* and what ToolCollection.run returned
Return(name, r) ==
    [op |-> "ret", at |-> Len(events), name |-> name,
     block |-> CurrentBlock.name, id |-> CurrentBlock.id,
     followup |-> (pc = "shot"), result |-> r]

\* main.py:177-208: the tool returns
RunReturn ==
    /\ pc = "run"
    /\ \E r \in RunOutcomes(CurrentBlock.name) :
          IF NeedsScreenshot(CurrentBlock.name, r)
          THEN /\ pc' = "shot"
               /\ calls' = calls \o << Return(CurrentBlock.name, r),
                                       [op |-> "run", name |-> "computer",
                                        at |-> Len(events)] >>
               /\ UNCHANGED <<idx, tool_result_content, events, instance,
                              tool_collection, running, turn>>
          ELSE /\ calls' = Append(calls, Return(CurrentBlock.name, r))
               /\ Emit(r)
    /\ UNCHANGED <<inbox, clientSent, clientGone, balance, agent_credits,
                   messages, response_params, nextId, inferTotal>>
    /\ UNCHANGED pruneVars

\* main.py:191-208: the screenshot returns
ShotReturn ==
    /\ pc = "shot"
    /\ \E r \in RunOutcomes("computer") :
          /\ calls' = Append(calls, Return("computer", r))
          /\ Emit(r)
    /\ UNCHANGED <<inbox, clientSent, clientGone, balance, agent_credits,
                   messages, response_params, nextId, inferTotal>>
    /\ UNCHANGED pruneVars

Next ==
    \/ ClientHello
    \/ ClientCommand
    \/ ClientDisconnect
    \/ Accept
    \/ Initialize
    \/ InitFailed
    \/ Launch
    \/ Command
    \/ Check
    \/ CheckPause
    \/ Infer
    \/ Part
    \/ RunReturn
    \/ ShotReturn

Spec == Init /\ [][Next]_vars

(***************************************************************************)
(* Claims about the session (Spec).                                        *)
(***************************************************************************)
TurnPcs == {"check", "pause", "infer", "part", "run", "shot"}

CountOp(op) == Len(SelectSeq(calls, LAMBDA c : c.op = op))

EventTypes == [i \in 1..Len(events) |-> events[i].type]

LastOf(seq) == seq[Len(seq)]

\* the decrement and inference calls of the turn, in order
QuotaCalls == SelectSeq(calls, LAMBDA c : c.op \in {"decrement", "infer"})

BalanceNeverNegative == balance >= 0

\* C3: a turn that starts with a balance <= 0 sends exactly one
\* out_of_credits frame and nothing else, makes no inference call, no tool
\* run and no decrement, and returns to the command loop, where the next
\* message starts a turn that reads the balance again.
OutOfCreditsTurn ==
    (turn.n >= 1 /\ turn.startBalance <= 0) =>
        /\ calls = << >>
        /\ balance = turn.startBalance
        /\ pc \in {"check", "loop", "closed"}
        /\ pc = "check" => (events = << >> /\ agent_credits = balance)
        /\ pc = "loop" => (events = << Event("out_of_credits") >> /\ turn.active = 0)
        /\ pc = "closed" => \/ events = << Event("out_of_credits") >>
                            \/ (clientGone /\ events = << >>)
        /\ Len(messages) = turn.startLen + 1

\* C3 witness: after an out_of_credits turn a second message was accepted
\* and answered the same way
OutOfCreditsWitness ==
    /\ turn.n = 2
    /\ turn.startBalance = 0
    /\ pc = "loop"
    /\ ~clientGone
    /\ events = << Event("out_of_credits") >>

\* the server takes the frame at the head of the inbox
Takes(f) == inbox # << >> /\ Head(inbox) = f /\ inbox' = Tail(inbox)

\* C4 as stated: a terminate frame is never consumed without the instance
\* being torn down and the session ending.
TerminateTearsDown ==
    [][Takes("terminate") => (pc' = "closed" /\ instance' = None)]_vars

\* C5: when the session has ended no instance is left: session.instance is
\* None and every instance that was started has been stopped.
NoInstanceLeft ==
    /\ running \in {0, 1}
    /\ (instance = None) <=> (running = 0)
    /\ pc = "closed" => (instance = None /\ tool_collection = None /\ running = 0)

\* C5 witness: the client went away during a turn in which a tool had run
\* and the session has ended
DisconnectInTurnWitness ==
    /\ pc = "closed"
    /\ clientGone
    /\ turn.n = 1
    /\ CountOp("run") >= 1

\* C6: at most one turn is executing at any time, a turn is executing
\* exactly while the session is inside process_chat_message, and a new turn
\* starts only from the command loop, with no turn executing.
NoConcurrentTurns ==
    /\ [](/\ turn.active \in {0, 1}
          /\ (turn.active = 1) <=> (pc \in TurnPcs))
    /\ [][turn'.n # turn.n =>
              (turn.active = 0 /\ pc = "loop" /\ turn'.n = turn.n + 1)]_vars

\* C6 witness: a message frame is waiting while a turn is executing
MessageDuringTurnWitness ==
    /\ turn.active = 1
    /\ pc \in {"part", "run"}
    /\ inbox # << >>
    /\ Head(inbox) = "message"

InferIdxs == { i \in 1..Len(calls) : calls[i].op = "infer" }

LastInferIdx == CHOOSE i \in InferIdxs : \A j \in InferIdxs : j <= i

\* the frames a response asks for, block by block, tool results left out
RECURSIVE Projection(_, _)
Projection(ks, n) ==
    IF n = 0 THEN << >>
    ELSE Append(Projection(ks, n - 1),
                IF ks[n] = "text" THEN Event("text")
                ELSE [type |-> "tool_use", name |-> ks[n]])

\* the tool_result frame of a tool run (main.py:199-208), not the error frame
\* of the except handler
IsToolResult(e) == e.type = "tool_result" /\ "image" \in DOMAIN e

\* C10: the blocks of a response are handled one at a time in the order the
\* provider returned them: a text block sends text; a tool_use block sends
\* tool_use, then the tool runs, and its tool_result is sent right after it
\* returns and before the next block is touched; tool runs never overlap;
\* and loop_complete is the last frame of its turn.
ResponseHandledInOrder ==
    /\ \A i \in 1..Len(events) :
           events[i].type = "loop_complete" => (i = Len(events) /\ pc \in {"loop", "closed"})
    /\ (turn.n >= 1 /\ pc # "closed" /\ InferIdxs # {} /\ calls[LastInferIdx].ok) =>
        LET last     == LastInferIdx
            inf      == calls[last]
            ks       == inf.content
            touched  == CASE pc = "part" -> idx - 1
                          [] pc \in {"run", "shot"} -> idx
                          [] OTHER -> Len(ks)
            sent     == SubSeq(events, inf.at + 1, Len(events))
            stripped == SelectSeq(sent, LAMBDA e : e.type # "tool_result")
            runs     == SelectSeq(SubSeq(calls, last + 1, Len(calls)),
                                  LAMBDA c : c.op \in {"run", "ret"})
        IN  /\ \E t \in { << >>, << Event("loop_complete") >>, << Event("loop_paused") >> } :
                   /\ stripped = Projection(ks, touched) \o t
                   /\ t # << >> => pc = "loop"
            /\ \A p \in 1..Len(sent) :
                   IsToolResult(sent[p]) =>
                       /\ p > 1
                       /\ sent[p - 1].type = "tool_use"
                       /\ \E k \in 1..Len(runs) :
                              runs[k].op = "ret" /\ runs[k].at = inf.at + p - 1
            /\ \A k \in 1..Len(runs) :
                   /\ runs[k].op = IF k % 2 = 1 THEN "run" ELSE "ret"
                   /\ runs[k].at > inf.at
                   /\ events[runs[k].at].type = "tool_use"
                   /\ runs[k].op = "run" =>
                          \/ events[runs[k].at].name = runs[k].name
                          \/ (events[runs[k].at].name = "bash" /\ runs[k].name = "computer")
            /\ (Len(runs) % 2 = 1) <=> (pc \in {"run", "shot"})

\* C10 witness: a turn whose first response was a tool call and a text block
\* and whose second response was text has completed
HappyPathWitness ==
    /\ pc = "loop"
    /\ ~clientGone
    /\ EventTypes = <<"tool_use", "tool_result", "text", "text", "loop_complete">>

\* a frame of the given type has been sent in this phase
HasEvent(t) == \E i \in 1..Len(events) : events[i].type = t

\* a tool_result frame that carries an error
IsErrorFrame(e) ==
    /\ e.type = "tool_result"
    /\ "error" \in DOMAIN e
    /\ e.error # None

\* the step sends an error-carrying tool_result and then loop_complete, and
\* nothing else
SendsErrorThenComplete ==
    /\ Len(events') = Len(events) + 2
    /\ SubSeq(events', 1, Len(events)) = events
    /\ IsErrorFrame(events'[Len(events) + 1])
    /\ events'[Len(events) + 2] = Event("loop_complete")

\* C11: when initialize_instance fails, the client is sent one error-carrying
\* tool_result and then one loop_complete, both for the first time; no
\* instance_info is ever sent (it is sent only after a successful
\* initialization); no frame is taken from the client afterwards; and the
\* session ends with no instance left.  Once the session has ended nothing
\* happens any more.
ProvisioningFailure ==
    /\ [](pc = "init_failed" =>
              /\ turn.n = 0
              /\ tool_collection = None
              /\ ~HasEvent("instance_info")
              /\ ~HasEvent("loop_complete")
              /\ \A i \in 1..Len(events) : ~IsErrorFrame(events[i]))
    /\ [][(pc = "init_failed" /\ pc' # pc) =>
              /\ pc' = "closed"
              /\ inbox' = inbox
              /\ instance' = None
              /\ running' = 0
              /\ ~HasEvent("instance_info")'
              /\ ~clientGone => SendsErrorThenComplete]_vars
    /\ [][(~HasEvent("instance_info") /\ HasEvent("instance_info")') =>
              (pc = "launch" /\ tool_collection = "tools")]_vars
    /\ [][pc # "closed"]_vars

\* C11 witness: the session of a connected client has ended after a failed
\* provisioning, with the deploying status, the error and loop_complete sent
ProvisioningFailedWitness ==
    /\ pc = "closed"
    /\ ~clientGone
    /\ turn.n = 0
    /\ running = 0
    /\ EventTypes = <<"tool_result", "tool_result", "loop_complete">>
    /\ IsErrorFrame(events[2])

\* C12: an inference call that raises ends the turn and nothing else: no
\* reply is appended to the history, the client is sent an error tool_result
\* and then loop_complete, the instance and its tools stay, and the session
\* is back in its command loop; the failed call is the last call of its turn
\* (no retry); and the next message starts a new turn by appending to the
\* history as it is.
InferenceFailureEndsTurnOnly ==
    /\ [][(pc = "infer" /\ inferTotal' # inferTotal /\ ~LastOf(calls').ok) =>
              /\ inferTotal' = inferTotal + 1
              /\ Len(calls') = Len(calls) + 1
              /\ Len(messages') = Len(messages)
              /\ pc' \in {"loop", "closed"}
              /\ ~clientGone =>
                     /\ pc' = "loop"
                     /\ turn'.active = 0
                     /\ SendsErrorThenComplete
                     /\ instance' = "instance"
                     /\ tool_collection' = "tools"
                     /\ running' = 1]_vars
    /\ [](\A k \in 1..Len(calls) :
              (calls[k].op = "infer" /\ ~calls[k].ok) =>
                  (k = Len(calls) /\ pc \in {"loop", "closed"}))
    /\ [][turn'.n # turn.n =>
              /\ messages' = Append(messages, UserText)
              /\ instance' = instance
              /\ tool_collection' = tool_collection
              /\ pc' = "check"]_vars

\* C12 witness: after a turn whose only inference call raised, a second
\* message has started a turn on the history the first one left
NewTurnAfterInferenceFailure ==
    /\ turn.n = 2
    /\ pc = "check"
    /\ ~clientGone
    /\ inferTotal = 1
    /\ instance = "instance"
    /\ messages = <<UserText, UserText>>

\* the response being handled is the answer of the turn's last inference call
InResponse == InferIdxs # {} /\ calls[LastInferIdx].ok /\ pc # "closed"

\* the tool runs that have returned while the response was handled, in order
CurrentReturns ==
    IF InferIdxs = {} THEN << >>
    ELSE SelectSeq(SubSeq(calls, LastInferIdx + 1, Len(calls)),
                   LAMBDA c : c.op = "ret")

\* a return of the tool the tool_use block names, not of a follow-up screenshot
IsDispatch(c) == ~c.followup

\* the tool_result blocks made for the tool_use block id in this iteration
PartsFor(id) == SelectSeq(tool_result_content, LAMBDA b : b.tool_use_id = id)

\* the frame sent right after the return c is a tool_result frame
ResultSentAfter(c) == Len(events) > c.at /\ IsToolResult(events[c.at + 1])

\* the ids of the tool_use blocks among the first n blocks of the response
ToolUseIds(n) ==
    LET uses == SelectSeq(SubSeq(response_params, 1, n),
                          LAMBDA b : b.type = "tool_use")
    IN  [k \in 1..Len(uses) |-> uses[k].id]

\* the ids of the tool_use blocks whose tool has returned, in order of return
DispatchedIds ==
    LET ds == SelectSeq(CurrentReturns, IsDispatch)
    IN  [k \in 1..Len(ds) |-> ds[k].id]

\* the except handler's frame (main.py:229-231), not a tool's error result
IsHandlerFrame(e) == IsErrorFrame(e) /\ "image" \notin DOMAIN e

\* C13 as stated: a tool run that returns null leaves no tool_result part
\* for its tool_use block, whatever the tool.
NullRunLeavesNoResult ==
    LET rs == CurrentReturns
    IN  \A k \in 1..Len(rs) :
            (IsDispatch(rs[k]) /\ rs[k].result = Null) => PartsFor(rs[k].id) = << >>

\* C13 amended: a tool run that returns null (unknown tool, or the
\* capability raised) never aborts the turn.  For a tool other than bash,
\* and for the follow-up screenshot, no tool_result frame and no history
\* part is made for that call; a null bash result is followed by the
\* screenshot run, whose result stands for it.  The tools of the response's
\* tool_use blocks are run one by one in the order of the blocks, none
\* skipped; after a return the for loop moves to the next block; after the
\* last block the history gets the assistant message, and the turn loops if
\* there are tool results and completes otherwise.  The except handler's
\* frames are sent only after a failed decrement or inference call.
NullRunNeverAborts ==
    /\ [](LET rs == CurrentReturns
          IN  \A k \in 1..Len(rs) :
                  LET c == rs[k]
                  IN  c.result = Null =>
                          IF IsDispatch(c) /\ c.name = "bash"
                          THEN /\ pc = "shot" => k = Len(rs)
                               /\ pc # "shot" =>
                                      /\ k < Len(rs)
                                      /\ ~IsDispatch(rs[k + 1])
                                      /\ rs[k + 1].id = c.id
                          ELSE /\ PartsFor(c.id) = << >>
                               /\ pc # "closed" => ~ResultSentAfter(c))
    /\ [](InResponse =>
              DispatchedIds =
                  ToolUseIds(CASE pc \in {"part", "run"} -> idx - 1
                               [] pc = "shot" -> idx
                               [] OTHER -> Len(response_params)))
    /\ [](\A i \in 1..Len(events) :
              (turn.n >= 1 /\ IsHandlerFrame(events[i])) =>
                  /\ LastOf(calls).op \in {"decrement", "infer"}
                  /\ ~LastOf(calls).ok)
    /\ [][(pc \in {"run", "shot"} /\ pc' # pc) =>
              /\ pc' \in {"part", "shot", "closed"}
              /\ pc' = "closed" => clientGone
              /\ pc' = "part" => idx' = idx + 1
              /\ pc' = "shot" => (pc = "run" /\ idx' = idx)
              /\ messages' = messages]_vars
    /\ [][(pc = "part" /\ idx > Len(response_params) /\ pc' # pc) =>
              LET assistant == [role |-> "assistant", content |-> response_params]
              IN  IF tool_result_content = << >>
                  THEN /\ messages' = Append(messages, assistant)
                       /\ pc' \in {"loop", "closed"}
                       /\ ~clientGone =>
                              (pc' = "loop" /\
                               events' = Append(events, Event("loop_complete")))
                  ELSE /\ messages' = messages \o
                              << assistant,
                                 [role |-> "user", content |-> tool_result_content] >>
                       /\ pc' = "check"
                       /\ events' = events]_vars

\* C13 witness: the first tool_use block of a response named an unknown tool
\* and its run returned null, the second block's tool ran and its result
\* was sent, and the turn has gone on to its next iteration
UnknownToolSkippedWitness ==
    /\ pc = "check"
    /\ ~clientGone
    /\ Len(CurrentReturns) = 2
    /\ CurrentReturns[1].name = "nosuch"
    /\ CurrentReturns[1].result = Null
    /\ CurrentReturns[2].result # Null
    /\ EventTypes = <<"tool_use", "tool_use", "tool_result">>
    /\ Len(tool_result_content) = 1
    /\ tool_result_content[1].tool_use_id = CurrentReturns[2].id

\* a bash run that returned nothing: null, or empty output, empty error and
\* no image
IsBlind(c) ==
    /\ IsDispatch(c)
    /\ c.name = "bash"
    /\ c.result \in {Null, EmptyResult}

\* the block has an image part holding the data
HasImage(b, data) ==
    /\ b.content.list
    /\ \E j \in 1..Len(b.content.parts) :
           b.content.parts[j] = [type |-> "image", data |-> data]

\* C14 as stated: after a bash run that returned nothing, a screenshot is
\* run on the computer tool, and the tool_result frame and the history part
\* of that call carry the screenshot's image; no other run is followed by a
\* screenshot.
BlindBashGetsImage ==
    LET rs == CurrentReturns
    IN  \A k \in 1..Len(rs) :
        LET c == rs[k]
        IN  /\ c.followup => (k > 1 /\ IsBlind(rs[k - 1]))
            /\ (IsBlind(c) /\ pc # "shot") =>
                   /\ k < Len(rs)
                   /\ LET f == rs[k + 1]
                      IN  /\ f.followup
                          /\ f.name = "computer"
                          /\ Len(PartsFor(c.id)) = 1
                          /\ \E data \in {"png"} : HasImage(PartsFor(c.id)[1], data)
                          /\ pc # "closed" =>
                                 /\ ResultSentAfter(f)
                                 /\ events[f.at + 1].image # None

\* C14 amended: after a bash run that returned nothing, and after no other
\* run, a screenshot is run on the computer tool for the same tool_use
\* block, and its result is used in place of the bash result: if it is
\* non-empty, the one tool_result frame and the one history part of that
\* call are made from it, and they carry the screenshot's image when it has
\* one and no error; if the screenshot run returns nothing either, no
\* tool_result frame and no history part is made for that call.  A bash
\* result that is not empty, and every result of another tool, is used as
\* it is.
BlindBashUsesScreenshot ==
    LET rs == CurrentReturns
    IN  \A k \in 1..Len(rs) :
        LET c == rs[k]
            used(r) ==
                IF Truthy(r)
                THEN /\ PartsFor(c.id) = << make_tool_result(r, c.id) >>
                     /\ pc # "closed" =>
                            /\ ResultSentAfter(c)
                            /\ events[c.at + 1].output =
                                   (IF Nonempty(r.output) THEN r.output ELSE None)
                            /\ events[c.at + 1].error =
                                   (IF Nonempty(r.error) THEN r.error ELSE None)
                            /\ events[c.at + 1].image =
                                   (IF Nonempty(r.base64_image) THEN r.base64_image ELSE None)
                     /\ (Nonempty(r.base64_image) /\ ~Nonempty(r.error)) =>
                            HasImage(PartsFor(c.id)[1], r.base64_image)
                ELSE /\ PartsFor(c.id) = << >>
                     /\ pc # "closed" => ~ResultSentAfter(c)
        IN  /\ c.followup =>
                   /\ k > 1
                   /\ IsBlind(rs[k - 1])
                   /\ rs[k - 1].id = c.id
                   /\ c.name = "computer"
                   /\ c.block = "bash"
                   /\ used(c.result)
            /\ IsBlind(c) =>
                   IF pc = "shot" /\ k = Len(rs)
                   THEN /\ LastOf(calls) = [op |-> "run", name |-> "computer", at |-> c.at]
                        /\ PartsFor(c.id) = << >>
                   ELSE /\ k < Len(rs)
                        /\ rs[k + 1].followup
            /\ (IsDispatch(c) /\ ~IsBlind(c)) =>
                   /\ k < Len(rs) => IsDispatch(rs[k + 1])
                   /\ pc = "shot" => k < Len(rs)
                   /\ used(c.result)

\* C14 witness: a bash run returned empty output, empty error and no image,
\* the screenshot returned an image, and the tool_result frame with that
\* image has been sent
BlindBashWitness ==
    /\ pc = "part"
    /\ ~clientGone
    /\ Len(CurrentReturns) = 2
    /\ CurrentReturns[1].name = "bash"
    /\ CurrentReturns[1].result = EmptyResult
    /\ CurrentReturns[2].followup
    /\ CurrentReturns[2].result = ToolResult("out", None, "png")
    /\ EventTypes = <<"tool_use", "tool_result">>
    /\ events[2].image = "png"
    /\ HasImage(tool_result_content[1], "png")

\* the command frames among the frames fs
CommandFrames(fs) == SelectSeq(fs, LAMBDA f : f \in Commands)

\* the place of the frame inbox[i] among the frames the client has sent
\* (the first frame is number 1)
FrameNo(i) ==
    clientSent - Len(CommandFrames(inbox)) + Len(CommandFrames(SubSeq(inbox, 1, i)))

\* a pause frame sent after the executing turn started is waiting in the inbox
PauseDelivered ==
    /\ turn.active = 1
    /\ \E i \in 1..Len(inbox) :
           inbox[i] = "pause" /\ FrameNo(i) > turn.startSent

\* C15 as stated: the turn looks for a pause before every inference call and
\* before every tool run: with a pause frame of this turn delivered, the
\* pause check does not let the inference call start, the for loop starts
\* no tool run, and a returning tool run is not followed by another one.
PauseStopsTurn ==
    [][(PauseDelivered /\ pc \in {"pause", "part", "run"}) =>
           /\ pc' # "infer"
           /\ CountOp("run")' = CountOp("run")
           /\ CountOp("infer")' = CountOp("infer")]_vars

\* C16 as stated: an iteration that begins with a stored balance <= 0 sends
\* out_of_credits and ends the turn, with no call to the store or to the
\* inference provider.
QuotaRecheckedEachIteration ==
    [][(pc = "check" /\ balance <= 0 /\ pc' # pc) =>
           /\ calls' = calls
           /\ pc' \in {"loop", "closed"}
           /\ ~clientGone => events' = Append(events, Event("out_of_credits"))]_vars

\* C17: no inference call and no tool run follows a store call that failed.
\* Every inference call of a turn comes right after a decrement that
\* succeeded, and every tool run after an inference call that succeeded, in
\* a turn whose balance read succeeded; a failed decrement is the last call
\* of its turn, which ends through the except handler with the balance
\* untouched; and a message whose user lookup or balance read fails starts
\* no turn: the exception ends the session.
QuotaConfirmedBeforeInference ==
    /\ [](\A k \in 1..Len(calls) :
              /\ calls[k].op = "infer" =>
                     (k > 1 /\ calls[k - 1].op = "decrement" /\ calls[k - 1].ok)
              /\ calls[k].op = "run" =>
                     \E j \in 1..(k - 1) : calls[j].op = "infer" /\ calls[j].ok
              /\ (calls[k].op = "decrement" /\ ~calls[k].ok) =>
                     (k = Len(calls) /\ pc \in {"loop", "closed"}))
    /\ [](pc \in TurnPcs => agent_credits = turn.startBalance)
    /\ [][(pc = "check" /\ calls' # calls /\ ~LastOf(calls').ok) =>
              /\ balance' = balance
              /\ inferTotal' = inferTotal
              /\ pc' \in {"loop", "closed"}
              /\ ~clientGone => (pc' = "loop" /\ SendsErrorThenComplete)]_vars
    /\ [][(pc = "loop" /\ Takes("message") /\ turn'.n = turn.n) =>
              /\ pc' = "closed"
              /\ calls' = calls
              /\ inferTotal' = inferTotal
              /\ messages' = messages
              /\ events' = events]_vars

\* C17 witness: in the second iteration of a turn the decrement failed, and
\* the turn ended there with the except handler's frames
DecrementFailedWitness ==
    /\ pc = "loop"
    /\ ~clientGone
    /\ Len(calls) >= 3
    /\ LastOf(calls).op = "decrement"
    /\ ~LastOf(calls).ok
    /\ CountOp("infer") = 1
    /\ Len(events) >= 2
    /\ IsHandlerFrame(events[Len(events) - 1])
    /\ LastOf(events) = Event("loop_complete")

\* the terminal frames of a turn
Terminal == {"loop_complete", "loop_paused", "out_of_credits"}

\* C19 as stated: with the client connected, the turn of every message ends
\* with exactly one terminal frame, the last frame of the turn.
TurnEndsWithOneTerminal ==
    /\ []((turn.n >= 1 /\ ~clientGone) =>
              /\ \A i \in 1..Len(events) :
                     events[i].type \in Terminal =>
                         (i = Len(events) /\ pc \in {"loop", "closed"})
              /\ (pc \in {"loop", "closed"} /\ turn.active = 0) =>
                     (events # << >> /\ LastOf(events).type \in Terminal))
    /\ [][(pc = "loop" /\ Takes("message") /\ ~clientGone) =>
              \/ pc' \in TurnPcs
              \/ (events' # << >> /\ LastOf(events').type \in Terminal)]_vars

\* a user message made of tool_result blocks
IsToolResultMessage(m) ==
    /\ m.role = "user"
    /\ m.content # << >>
    /\ \A j \in 1..Len(m.content) : m.content[j].type = "tool_result"

\* the position of the tool_use block with the id in the content of an
\* assistant message, 0 if there is none
PosOfToolUse(content, id) ==
    LET ps == { p \in 1..Len(content) :
                    content[p].type = "tool_use" /\ content[p].id = id }
    IN  IF ps = {} THEN 0 ELSE CHOOSE p \in ps : \A q \in ps : p <= q

\* C20: the history is well-formed in every state: its first message is a
\* user message; an assistant message is never followed by another one;
\* every user message is the text of a client message or is made of
\* tool_result blocks; and a user message of tool_result blocks comes right
\* after an assistant message, each of its blocks carrying the id of a
\* tool_use block of that message, in the order of those tool_use blocks.
HistoryWellFormed ==
    /\ messages # << >> => messages[1].role = "user"
    /\ \A i \in 1..(Len(messages) - 1) :
           ~(messages[i].role = "assistant" /\ messages[i + 1].role = "assistant")
    /\ \A i \in 1..Len(messages) :
           /\ messages[i].role \in {"user", "assistant"}
           /\ messages[i].role = "user" =>
                  (messages[i] = UserText \/ IsToolResultMessage(messages[i]))
           /\ IsToolResultMessage(messages[i]) =>
                  /\ i > 1
                  /\ messages[i - 1].role = "assistant"
                  /\ LET a == messages[i - 1].content
                         u == messages[i].content
                     IN  /\ \A j \in 1..Len(u) : PosOfToolUse(a, u[j].tool_use_id) > 0
                         /\ \A j, k \in 1..Len(u) :
                                j < k => PosOfToolUse(a, u[j].tool_use_id)
                                             < PosOfToolUse(a, u[k].tool_use_id)

\* C20 witness: a response with three tool_use blocks, the first of an
\* unknown tool, has been handled: the history ends with the assistant
\* message and a user message with the results of the other two blocks, in
\* their order
TwoResultsWitness ==
    /\ pc = "check"
    /\ turn.n = 1
    /\ Len(messages) = turn.startLen + 3
    /\ Len(messages[Len(messages) - 1].content) = 3
    /\ IsToolResultMessage(LastOf(messages))
    /\ Len(LastOf(messages).content) = 2
    /\ LastOf(messages).content[1].tool_use_id = messages[Len(messages) - 1].content[2].id
    /\ LastOf(messages).content[2].tool_use_id = messages[Len(messages) - 1].content[3].id

(***************************************************************************)
(* SpecLate: a session late in its life.  The instance is running, earlier *)
(* turns have left a history of tool iterations whose results are          *)
(* screenshots, and the next message is waiting in the command loop.  A    *)
(* turn can end with up to images_to_keep + min_removal_threshold images   *)
(* in the history: the pruning runs before an inference call (main.py:145) *)
(* and the results of the response are appended after it (main.py:211-221).*)
(* The client sends nothing more and stays connected while the turn runs;  *)
(* no response holds a bash call, so no screenshot follow-up runs.         *)
(***************************************************************************)
ImageResult == ToolResult(None, None, "png")

LateImages == 0..(images_to_keep + min_removal_threshold)

InitLate ==
    /\ pc = "loop"
    /\ inbox = <<"message">>
    /\ clientSent = 2
    /\ clientGone = FALSE
    /\ instance = "instance"
    /\ tool_collection = "tools"
    /\ running = 1
    /\ balance \in 0..MaxCredits
    /\ agent_credits = 0
    /\ \E k \in LateImages :
           /\ messages = HistoryOf([i \in 1..k |-> ImageResult])
           /\ nextId = k + 1
    /\ response_params = << >>
    /\ idx = 0
    /\ tool_result_content = << >>
    /\ events = << >>
    /\ calls = << >>
    /\ turn = NoTurn
    /\ inferTotal = 0
    /\ keep = images_to_keep
    /\ minBatch = min_removal_threshold
    /\ before = << >>
    /\ prunes = 0
    /\ responses = LateResponses

NextLate ==
    \/ Command
    \/ Check
    \/ CheckPause
    \/ Infer
    \/ Part
    \/ RunReturn

SpecLate == InitLate /\ [][NextLate]_vars

(***************************************************************************)
(* Claims about the history of a session (SpecLate).                       *)
(***************************************************************************)
\* the inference calls of the turn, in order
InferCalls == SelectSeq(calls, LAMBDA c : c.op = "infer")

\* the tool_result frames of the turn that carry an image
ImageEvents == SelectSeq(events, LAMBDA e : IsToolResult(e) /\ e.image # None)

\* C18: the history sent with an inference call holds at most
\* images_to_keep + min_removal_threshold - 1 = 5 images in its tool_result
\* blocks, whatever the turns before it left in the history.
AtMostFiveImagesSent ==
    \A k \in 1..Len(calls) :
        calls[k].op = "infer" =>
            calls[k].images <= images_to_keep + min_removal_threshold - 1

\* C18 witness: an inference call was sent 5 images, its response brought 2
\* more, and the next inference call of the turn was sent 5 again
PrunedBeforeInferenceWitness ==
    /\ Len(InferCalls) = 2
    /\ InferCalls[1].images = 5
    /\ Len(ImageEvents) = 2
    /\ InferCalls[2].images = 5
    /\ InferCalls[2].at = Len(events)

(***************************************************************************)
(* SpecPrune: the pruning applied to bounded histories.                    *)
(***************************************************************************)
SessionIdle ==
    /\ pc = "prune"
    /\ inbox = << >>
    /\ clientSent = 0
    /\ clientGone = FALSE
    /\ instance = None
    /\ tool_collection = None
    /\ running = 0
    /\ balance = 0
    /\ agent_credits = 0
    /\ response_params = << >>
    /\ idx = 0
    /\ tool_result_content = << >>
    /\ events = << >>
    /\ calls = << >>
    /\ turn = NoTurn
    /\ nextId = 0
    /\ inferTotal = 0

\* the results behind the histories under pruning: a block whose content is
\* a str, a block holding an image only, a block holding text and an image
PruneOutcomes == TruthyOutcomes \ { ToolResult("out", None, None) }

InitPrune ==
    /\ SessionIdle
    /\ \E rs \in BoundedSeqs(PruneOutcomes, MaxResults) :
           messages = HistoryOf(rs)
    /\ keep \in Keeps
    /\ minBatch \in Batches
    /\ before = << >>
    /\ prunes = 0
    /\ responses = {}

\* one pruning pass over the history
Prune ==
    /\ prunes < 2
    /\ before' = Append(before, messages)
    /\ messages' = maybe_filter_to_n_most_recent_images(messages, keep, minBatch)
    /\ prunes' = prunes + 1
    /\ UNCHANGED <<keep, minBatch, responses>>
    /\ UNCHANGED sessionVars

NextPrune == Prune

SpecPrune == InitPrune /\ [][NextPrune]_vars

(***************************************************************************)
(* Claims about the pruning (SpecPrune).                                   *)
(***************************************************************************)
\* the tool_use_ids of the tool_result blocks that hold an image, oldest first
ImageIds(msgs) ==
    LET blocks == ToolResultBlocks(msgs)
        holders == SelectSeq(blocks, LAMBDA b :
                       /\ b.content.list
                       /\ \E i \in 1..Len(b.content.parts) :
                              b.content.parts[i].type = "image")
    IN  [i \in 1..Len(holders) |-> holders[i].tool_use_id]

\* a block without its image parts
StripBlock(b) ==
    IF b.type = "tool_result" /\ b.content.list
    THEN [b EXCEPT !.content.parts = SelectSeq(@, LAMBDA c : c.type # "image")]
    ELSE b

Excess(k, n) == IF k > n THEN k - n ELSE 0

Removed(h, m) == Len(ImageIds(h)) - Len(ImageIds(m))

\* C8: one pruning pass over a history with k images removes exactly
\* e - (e % minBatch) of them, e = max(0, k - keep), and a second pass right
\* after it removes none and leaves the history as it is.
PruneRemovesBatchedExcess ==
    /\ prunes >= 1 =>
           LET k == Len(ImageIds(before[1]))
               e == Excess(k, keep)
               after == IF prunes = 1 THEN messages ELSE before[2]
           IN  Removed(before[1], after) = e - (e % minBatch)
    /\ prunes = 2 =>
           /\ Removed(before[2], messages) = 0
           /\ messages = before[2]

\* C8 witness: a first pass removed a batch and left an excess below the
\* batch size, and a second pass has run on the result
PruneTwiceWitness ==
    /\ prunes = 2
    /\ keep = images_to_keep - 1
    /\ minBatch = min_removal_threshold
    /\ Len(ImageIds(before[1])) = 6
    /\ Len(ImageIds(before[2])) = 4
    /\ Len(ImageIds(messages)) = 4

\* C9: a pruning pass keeps every message and every non-image part in place
\* and in order, deletes image parts only, and the images it deletes are the
\* oldest ones.
PruneFrame ==
    prunes >= 1 =>
        LET h == before[prunes]
            m == messages
            r == Removed(h, m)
        IN  /\ Len(m) = Len(h)
            /\ \A i \in 1..Len(h) :
                   /\ m[i].role = h[i].role
                   /\ Len(m[i].content) = Len(h[i].content)
                   /\ \A j \in 1..Len(h[i].content) :
                          \/ m[i].content[j] = h[i].content[j]
                          \/ m[i].content[j] = StripBlock(h[i].content[j])
            /\ r >= 0
            /\ ImageIds(m) = SubSeq(ImageIds(h), r + 1, Len(ImageIds(h)))

\* C9 witness: a pass deleted the image of a block that also holds text and
\* kept the text, while newer images stayed
PruneFrameWitness ==
    /\ prunes = 1
    /\ Removed(before[1], messages) > 0
    /\ Len(ImageIds(messages)) > 0
    /\ \E i \in 1..Len(messages) : \E j \in 1..Len(messages[i].content) :
           /\ messages[i].content[j] # before[1][i].content[j]
           /\ messages[i].content[j].content.parts = << [type |-> "text", text |-> "out"] >>

====
